---- MODULE Spec2Model ----
(***************************************************************************)
(* Facebook video / reel downloader API (version 1.1.0).                   *)
(*                                                                         *)
(* The model follows src/unnamed/part_001, the server the specification    *)
(* describes: extractMediaId (the identifier resolver), extractMediaData   *)
(* (the extractor with its one outbound fetch) and the GET /download       *)
(* handler.  src/index.js, the first version of the same service, has its  *)
(* own /download handler; it is modelled next to it (the Index*            *)
(* definitions).                                                           *)
(*                                                                         *)
(* JavaScript values: a string s is Str(s), null and undefined are Null    *)
(* and Undefined, so that values of different JavaScript types can be      *)
(* compared.  Text is kept as text: the regular expressions and the URL    *)
(* parser work character by character on the strings the code sees.        *)
(***************************************************************************)
EXTENDS Naturals, Sequences, FiniteSets, TLC

(***************************************************************************)
(* JavaScript values                                                       *)
(***************************************************************************)
Null == [null |-> TRUE]
Undefined == [undefined |-> TRUE]
Str(s) == [str |-> s]
IsStr(v) == DOMAIN v = {"str"}
\* JavaScript truthiness of a value that is a string, null or undefined.
Truthy(v) == IsStr(v) /\ v.str # ""

(***************************************************************************)
(* Characters and substrings                                               *)
(***************************************************************************)
Char(s, i) == SubSeq(s, i, i)
Digits == {"0", "1", "2", "3", "4", "5", "6", "7", "8", "9"}
UpperCase == "ABCDEFGHIJKLMNOPQRSTUVWXYZ"
LowerCase == "abcdefghijklmnopqrstuvwxyz"
\* \s of a JavaScript regular expression (the members the pages here use).
WhiteSpace == {" ", "\t", "\n"}
\* The line terminators "." does not match.
LineTerminators == {"\n", "\r"}
Quotes == {"\"", "'"}

Min(S) == CHOOSE x \in S : \A y \in S : x <= y
Max(S) == CHOOSE x \in S : \A y \in S : x >= y

IsDigitAt(s, i) == i >= 1 /\ i <= Len(s) /\ Char(s, i) \in Digits
UpperToLower ==
    [c \in {Char(UpperCase, k) : k \in 1..26} |->
        Char(LowerCase, CHOOSE k \in 1..26 : Char(UpperCase, k) = c)]
LowerChar(c) == IF c \in DOMAIN UpperToLower THEN UpperToLower[c] ELSE c
RECURSIVE ToLower(_)
ToLower(s) ==
    IF Len(s) <= 1 THEN LowerChar(s)
    ELSE ToLower(SubSeq(s, 1, Len(s) \div 2))
           \o ToLower(SubSeq(s, (Len(s) \div 2) + 1, Len(s)))

\* The literal lit occurs in s at position i.
LitAt(s, i, lit) ==
    i >= 1 /\ i + Len(lit) - 1 <= Len(s) /\ SubSeq(s, i, i + Len(lit) - 1) = lit
\* String.prototype.includes
Includes(s, lit) == \E i \in 1..(Len(s) + 1) : LitAt(s, i, lit)
\* String.prototype.indexOf, 1-based; 0 when absent
IndexOf(s, lit) ==
    IF Includes(s, lit) THEN Min({i \in 1..(Len(s) + 1) : LitAt(s, i, lit)}) ELSE 0
\* The position of the first character of s at or after i that is in set,
\* Len(s) + 1 when there is none.
FirstOf(s, i, set) ==
    Min({j \in i..Len(s) : Char(s, j) \in set} \cup {Len(s) + 1})
\* The end of the longest run of characters of set that starts at i (i - 1
\* when the run is empty): a greedy X* or X+.
RunEnd(s, i, set) ==
    Min({j \in i..Len(s) : Char(s, j) \notin set} \cup {Len(s) + 1}) - 1
\* String.prototype.replace(lit, "") : the first occurrence only.
RemoveFirst(s, lit) ==
    LET i == IndexOf(s, lit)
    IN  IF i = 0 THEN s ELSE SubSeq(s, 1, i - 1) \o SubSeq(s, i + Len(lit), Len(s))
\* String.prototype.trim
TrimSet(s, set) ==
    LET keep == {i \in 1..Len(s) : Char(s, i) \notin set}
    IN  IF keep = {} THEN "" ELSE SubSeq(s, Min(keep), Max(keep))
Trim(s) == TrimSet(s, WhiteSpace)


(***************************************************************************)
(* new URL(text): the WHATWG URL parser of Node's 'url' module, for the    *)
(* parts extractMediaId reads (hostname, pathname, searchParams).  It      *)
(* covers absolute URLs with a scheme, a host and an optional path and     *)
(* query under a special scheme; other schemes, user info, ports,          *)
(* percent-encoding, dot segments and numeric hosts of ten digits or more  *)
(* do not occur in the modelled inputs.  The result is Null where the      *)
(* constructor throws (TypeError: Invalid URL).                            *)
(***************************************************************************)
SpecialSchemes == {"http", "https", "ws", "wss", "ftp"}
SchemeChars ==
    {Char(LowerCase, k) : k \in 1..26} \cup Digits \cup {"+", "-", "."}
\* Code points a host may not hold.
ForbiddenHostChars ==
    {" ", "\t", "\n", "#", "%", "/", ":", "<", ">", "?", "@", "[", "\\", "]", "^", "|"}

RECURSIVE StrToNat(_)
StrToNat(s) ==
    IF s = "" THEN 0
    ELSE StrToNat(SubSeq(s, 1, Len(s) - 1)) * 10
           + (CHOOSE d \in 0..9 : Char("0123456789", d + 1) = Char(s, Len(s)))
RECURSIVE NatToStr(_)
NatToStr(n) ==
    IF n < 10 THEN Char("0123456789", n + 1)
    ELSE NatToStr(n \div 10) \o Char("0123456789", (n % 10) + 1)
\* The serialisation of an IPv4 address given as one number.
IPv4ToStr(n) ==
    NatToStr(n \div 16777216) \o "." \o NatToStr((n \div 65536) % 256) \o "."
        \o NatToStr((n \div 256) % 256) \o "." \o NatToStr(n % 256)
\* The host parser: lower-cased domain; a host that is one number is an
\* IPv4 address; Null on failure.
ParseHost(h) ==
    IF h = "" \/ \E i \in 1..Len(h) : Char(h, i) \in ForbiddenHostChars THEN Null
    ELSE IF \A i \in 1..Len(h) : Char(h, i) \in Digits
         THEN IF Len(h) <= 9 THEN Str(IPv4ToStr(StrToNat(h))) ELSE Null
         ELSE Str(ToLower(h))

\* s without its characters of set.
RECURSIVE RemoveChars(_, _)
RemoveChars(s, set) ==
    IF Len(s) = 0 THEN ""
    ELSE IF Len(s) = 1 THEN (IF s \in set THEN "" ELSE s)
    ELSE RemoveChars(SubSeq(s, 1, Len(s) \div 2), set)
           \o RemoveChars(SubSeq(s, (Len(s) \div 2) + 1, Len(s)), set)

\* Leading and trailing control characters and spaces are stripped, then
\* every tab and newline is removed, before the text is parsed.
ParseURL(text) ==
    LET t == RemoveChars(TrimSet(text, {" ", "\t", "\n", "\r"}), {"\t", "\n", "\r"})
        colon == IndexOf(t, ":")
        scheme == ToLower(SubSeq(t, 1, colon - 1))
        schemeOk == /\ colon > 1
                    /\ Char(scheme, 1) \in {Char(LowerCase, k) : k \in 1..26}
                    /\ \A i \in 1..Len(scheme) : Char(scheme, i) \in SchemeChars
        \* special schemes: every slash after the colon is skipped
        hostStart == RunEnd(t, colon + 1, {"/", "\\"}) + 1
        hostEnd == FirstOf(t, hostStart, {"/", "\\", "?", "#"}) - 1
        host == ParseHost(SubSeq(t, hostStart, hostEnd))
        pathEnd == FirstOf(t, hostEnd + 1, {"?", "#"}) - 1
        path == SubSeq(t, hostEnd + 1, pathEnd)
        queryEnd == FirstOf(t, pathEnd + 1, {"#"}) - 1
        urlQuery == SubSeq(t, pathEnd + 1, queryEnd)
    IN  IF ~schemeOk \/ scheme \notin SpecialSchemes THEN Null
        ELSE IF host = Null THEN Null
        ELSE [hostname |-> host.str,
              pathname |-> IF path = "" THEN "/" ELSE path,
              search   |-> IF urlQuery = "?" THEN "" ELSE urlQuery]

\* The pieces of s between the occurrences of the character sep.
RECURSIVE Split(_, _)
Split(s, sep) ==
    LET i == FirstOf(s, 1, {sep})
    IN  IF i > Len(s) THEN <<s>>
        ELSE <<SubSeq(s, 1, i - 1)>> \o Split(SubSeq(s, i + 1, Len(s)), sep)

\* url.searchParams.get(name): the value of the first pair of that name,
\* null when there is none.
SearchParamsGet(search, name) ==
    LET q == IF search # "" /\ Head(search) = "?" THEN Tail(search) ELSE search
        pairs == Split(q, "&")
        Key(p) == SubSeq(p, 1, FirstOf(p, 1, {"="}) - 1)
        Val(p) == SubSeq(p, FirstOf(p, 1, {"="}) + 1, Len(p))
        hits == {k \in 1..Len(pairs) : pairs[k] # "" /\ Key(pairs[k]) = name}
    IN  IF hits = {} THEN Null ELSE Str(Val(pairs[Min(hits)]))

(***************************************************************************)
(* The regular expressions of extractMediaId.  Each operator gives what    *)
(* String.prototype.match gives for capture group 1: Str(capture) for the  *)
(* leftmost match, Null when the expression does not match.  Under the     *)
(* flag i a literal, written in lower case, is looked for in the           *)
(* lower-cased text; the capture is taken from the text itself.            *)
(***************************************************************************)
\* /<lit>(\d+)/i for the literals lits, tried in order at each position:
\* the capture is the greedy run of digits after the literal.
MatchLitDigits(s, lits) ==
    LET low == ToLower(s)
        Hit(i, k) == LitAt(low, i, lits[k]) /\ IsDigitAt(s, i + Len(lits[k]))
        hits == {i \in 1..Len(s) : \E k \in 1..Len(lits) : Hit(i, k)}
    IN  IF hits = {} THEN Null
        ELSE LET i == Min(hits)
                 k == Min({n \in 1..Len(lits) : Hit(i, n)})
                 st == i + Len(lits[k])
             IN  Str(SubSeq(s, st, RunEnd(s, st, Digits)))

\* /\/(?:reel|reels)\/(\d+)/i
ReelPattern(s) == MatchLitDigits(s, <<"/reel/", "/reels/">>)
\* /\/videos\/reel\/(\d+)/i
VideosReelPattern(s) == MatchLitDigits(s, <<"/videos/reel/">>)
\* /\/watch\/\?story_fbid=(\d+)/i
WatchStoryPattern(s) == MatchLitDigits(s, <<"/watch/?story_fbid=">>)
\* /\/videos\/(?:\d+)\/(\d+)/i
VideosPagePattern(s) ==
    LET low == ToLower(s)
        lit == "/videos/"
        PageEnd(i) == RunEnd(s, i + Len(lit), Digits)
        Hit(i) == /\ LitAt(low, i, lit)
                  /\ IsDigitAt(s, i + Len(lit))
                  /\ LitAt(s, PageEnd(i) + 1, "/")
                  /\ IsDigitAt(s, PageEnd(i) + 2)
        hits == {i \in 1..Len(s) : Hit(i)}
    IN  IF hits = {} THEN Null
        ELSE LET st == PageEnd(Min(hits)) + 2
             IN  Str(SubSeq(s, st, RunEnd(s, st, Digits)))
\* /\/video\.php\?(?:.*)v=(\d+)/i : the greedy .* takes the last "v=<digit>"
\* on the line.
VideoPhpPattern(s) ==
    LET low == ToLower(s)
        lit == "/video.php?"
        LineEnd(i) == FirstOf(s, i + Len(lit), LineTerminators) - 1
        Vs(i) == {j \in (i + Len(lit))..LineEnd(i) :
                     LitAt(low, j, "v=") /\ IsDigitAt(s, j + 2) /\ j + 2 <= LineEnd(i) + 1}
        hits == {i \in 1..Len(s) : LitAt(low, i, lit) /\ Vs(i) # {}}
    IN  IF hits = {} THEN Null
        ELSE LET st == Max(Vs(Min(hits))) + 2
             IN  Str(SubSeq(s, st, RunEnd(s, st, Digits)))

\* pathname.split('/')[1]
FirstPathSegment(pathname) ==
    LET parts == Split(pathname, "/")
    IN  IF Len(parts) >= 2 THEN Str(parts[2]) ELSE Undefined

(***************************************************************************)
(* extractMediaId(input): {id, type}.                                      *)
(***************************************************************************)
MediaRef(id, type) == [id |-> id, type |-> type]
NotRecognized == MediaRef(Null, Null)

\* A faulty variant of IsNumericId, /^\d$/ : C2 must tell it apart.
IsNumericIdOneDigit(inputArg) == Len(inputArg) = 1 /\ Char(inputArg, 1) \in Digits
\* /^\d+$/.test(input)
IsNumericId(inputArg) ==
    inputArg # "" /\ \A i \in 1..Len(inputArg) : Char(inputArg, i) \in Digits

\* The hosts extractMediaId accepts.
IsKnownHost(host) ==
    Includes(host, "facebook.com") \/ Includes(host, "fb.watch") \/ Includes(host, "fb.com")

\* The ordered rules applied to a parsed URL of a known host.
ResolveKnownHost(url, host) ==
    LET reelMatch == ReelPattern(url.pathname)
        sharedReelMatch ==
            IF VideosReelPattern(url.pathname) # Null
            THEN VideosReelPattern(url.pathname)
            ELSE WatchStoryPattern(url.pathname)
        v == SearchParamsGet(url.search, "v")
        videoMatch ==
            IF VideosPagePattern(url.pathname) # Null
            THEN VideosPagePattern(url.pathname)
            ELSE VideoPhpPattern(url.pathname)
        story == SearchParamsGet(url.search, "story_fbid")
    IN  IF reelMatch # Null THEN MediaRef(reelMatch, Str("reel"))
        ELSE IF sharedReelMatch # Null THEN MediaRef(sharedReelMatch, Str("shared_reel"))
        ELSE IF url.pathname = "/watch/" /\ Truthy(v) THEN MediaRef(v, Str("video"))
        ELSE IF videoMatch # Null THEN MediaRef(videoMatch, Str("shared_video"))
        ELSE IF Includes(host, "fb.watch")
             THEN MediaRef(FirstPathSegment(url.pathname), Str("video"))
        ELSE IF Truthy(story) THEN MediaRef(story, Str("shared_reel"))
        ELSE NotRecognized

\* input is a string, or Undefined for a parameter that was not given.
extractMediaId(inputArg) ==
    IF ~Truthy(inputArg) THEN NotRecognized
    ELSE IF IsNumericId(inputArg.str) THEN MediaRef(inputArg, Str("video"))
    ELSE LET text == IF Includes(inputArg.str, "://") THEN inputArg.str
                     ELSE "https://" \o inputArg.str
             url == ParseURL(text)
             host == RemoveFirst(url.hostname, "www.")
         IN  IF url = Null THEN NotRecognized
             ELSE IF IsKnownHost(host) THEN ResolveKnownHost(url, host)
             ELSE NotRecognized

(***************************************************************************)
(* The outbound fetch.  axios.get settles in one of these ways: a 2xx      *)
(* response with its text, a rejection that carries the response of a      *)
(* non-2xx status, or a rejection with no response (timeout, transport).   *)
(***************************************************************************)
FetchOk(data) == [kind |-> "ok", data |-> data]
FetchHttpError(status) ==
    [kind |-> "http", status |-> status,
     message |-> "Request failed with status code " \o NatToStr(status)]
FetchNoResponse(message) == [kind |-> "noresponse", message |-> message]

\* timeout: 10000 of the axios request, in milliseconds
FetchTimeoutMs == 10000
FetchTimeout == FetchNoResponse("timeout of " \o NatToStr(FetchTimeoutMs) \o "ms exceeded")
FetchDnsFailure == FetchNoResponse("getaddrinfo ENOTFOUND www.facebook.com")

\* A faulty variant of ErrorResponseStatus that takes every HTTP error for a
\* 404: C5 must tell it apart.
ErrorResponseStatusAlways404(settled) ==
    IF settled.kind = "http" THEN 404 ELSE 0
\* error.response?.status
ErrorResponseStatus(settled) ==
    IF settled.kind = "http" THEN settled.status ELSE 0

(***************************************************************************)
(* cheerio.load(response.data) followed by $.html(): the document is       *)
(* parsed and serialised again.  A text that is already a serialised       *)
(* document comes back as it is; a fragment with no markup of its own is   *)
(* placed in the body of an empty document.                                *)
(***************************************************************************)
CheerioHtml(data) ==
    IF LitAt(data, 1, "<html>") THEN data
    ELSE "<html><head></head><body>" \o data \o "</body></html>"

(***************************************************************************)
(* The regular expressions of extractMediaData, capture group 1.           *)
(***************************************************************************)
CharIn(s, i, set) == i >= 1 /\ i <= Len(s) /\ Char(s, i) \in set
CharNotIn(s, i, set) == i >= 1 /\ i <= Len(s) /\ Char(s, i) \notin set

\* /(?:<names>)_src\s*[=:]\s*["']([^"']+)/i
SrcPattern(s, names) ==
    LET low == ToLower(s)
        AfterName(i, k) == i + Len(names[k]) + Len("_src")
        Sep(i, k) == RunEnd(s, AfterName(i, k), WhiteSpace) + 1
        Quote(i, k) == RunEnd(s, Sep(i, k) + 1, WhiteSpace) + 1
        Hit(i, k) == /\ LitAt(low, i, names[k] \o "_src")
                     /\ CharIn(s, Sep(i, k), {"=", ":"})
                     /\ CharIn(s, Quote(i, k), Quotes)
                     /\ CharNotIn(s, Quote(i, k) + 1, Quotes)
        hits == {i \in 1..Len(s) : \E k \in 1..Len(names) : Hit(i, k)}
    IN  IF hits = {} THEN Null
        ELSE LET i == Min(hits)
                 k == Min({n \in 1..Len(names) : Hit(i, n)})
                 st == Quote(i, k) + 1
             IN  Str(SubSeq(s, st, FirstOf(s, st, Quotes) - 1))

Qualities == <<"hd", "sd", "fallback">>
\* urlPatterns
UrlPattern(quality, s) ==
    CASE quality = "hd" -> SrcPattern(s, <<"hd", "high_quality">>)
      [] quality = "sd" -> SrcPattern(s, <<"sd", "standard_quality">>)
      [] quality = "fallback" -> SrcPattern(s, <<"video", "src">>)

\* /<title[^>]*>([^<]+)<\/title>/i
TitlePattern(s) ==
    LET low == ToLower(s)
        Gt(i) == FirstOf(s, i + Len("<title"), {">"})
        Lt(i) == FirstOf(s, Gt(i) + 1, {"<"})
        Hit(i) == /\ LitAt(low, i, "<title")
                  /\ Gt(i) <= Len(s)
                  /\ Lt(i) > Gt(i) + 1
                  /\ LitAt(low, Lt(i), "</title>")
        hits == {i \in 1..Len(s) : Hit(i)}
    IN  IF hits = {} THEN Null
        ELSE Str(SubSeq(s, Gt(Min(hits)) + 1, Lt(Min(hits)) - 1))

\* /<meta\s+<attr>\s+content="([^"]+)/i
MetaPattern(s, attr) ==
    LET low == ToLower(s)
        Attr(i) == RunEnd(s, i + Len("<meta"), WhiteSpace) + 1
        Content(i) == RunEnd(s, Attr(i) + Len(attr), WhiteSpace) + 1
        Value(i) == Content(i) + Len("content=\"")
        Hit(i) == /\ LitAt(low, i, "<meta")
                  /\ Attr(i) > i + Len("<meta")
                  /\ LitAt(low, Attr(i), attr)
                  /\ Content(i) > Attr(i) + Len(attr)
                  /\ LitAt(low, Content(i), "content=\"")
                  /\ CharNotIn(s, Value(i), {"\""})
        hits == {i \in 1..Len(s) : Hit(i)}
    IN  IF hits = {} THEN Null
        ELSE LET st == Value(Min(hits))
             IN  Str(SubSeq(s, st, FirstOf(s, st, {"\""}) - 1))

(***************************************************************************)
(* extractMediaData(mediaId, mediaType)                                    *)
(***************************************************************************)
\* The page fetched for a media type: the switch on mediaType.
SourceUrl(mediaId, mediaType) ==
    IF mediaType \in {"reel", "shared_reel"}
    THEN "https://www.facebook.com/reel/" \o mediaId
    ELSE "https://www.facebook.com/watch/?v=" \o mediaId

\* const downloadLinks = {}; filled for each quality whose pattern matched
DownloadLinks(pageContent) ==
    [q \in {Qualities[k] : k \in {n \in 1..Len(Qualities) :
                                     Truthy(UrlPattern(Qualities[n], pageContent))}}
       |-> UrlPattern(q, pageContent).str]

Metadata(pageContent, url) ==
    LET titleMatch == TitlePattern(pageContent)
        descriptionMatch == MetaPattern(pageContent, "name=\"description\"")
        thumbnailMatch == MetaPattern(pageContent, "property=\"og:image\"")
    IN  [title |-> IF titleMatch # Null
                   THEN Str(Trim(RemoveFirst(titleMatch.str, " | Facebook")))
                   ELSE Null,
         description |-> IF descriptionMatch # Null
                         THEN Str(Trim(descriptionMatch.str))
                         ELSE Null,
         thumbnail |-> thumbnailMatch,
         sourceUrl |-> url]

\* What a call returns or throws.
Return(v) == [completion |-> "return", value |-> v]
Throw(e) == [completion |-> "throw", error |-> e]

\* A faulty variant of ExtractTry that also stamps the source URL with the
\* time of the call: C10 must tell it apart.
ExtractTryStamped(mediaId, mediaType, settled, time) ==
    IF settled.kind # "ok" THEN Throw(settled)
    ELSE LET url == SourceUrl(mediaId, mediaType) \o "&t=" \o NatToStr(time)
             pageContent == CheerioHtml(settled.data)
         IN  Return([success |-> TRUE,
                     mediaId |-> mediaId,
                     mediaType |-> mediaType,
                     metadata |-> Metadata(pageContent, url),
                     downloadLinks |-> DownloadLinks(pageContent),
                     timestamp |-> time])

\* The body of the try block, once the fetch has settled: a rejected fetch
\* is thrown at the await.
ExtractTry(mediaId, mediaType, settled, time) ==
    IF settled.kind # "ok" THEN Throw(settled)
    ELSE LET url == SourceUrl(mediaId, mediaType)
             pageContent == CheerioHtml(settled.data)
         IN  Return([success |-> TRUE,
                     mediaId |-> mediaId,
                     mediaType |-> mediaType,
                     metadata |-> Metadata(pageContent, url),
                     downloadLinks |-> DownloadLinks(pageContent),
                     timestamp |-> time])

\* A faulty variant of the catch block that lets the error through: C12 must
\* tell it apart.
ExtractCatchRethrow(error, env) == Throw(error)
\* The catch block.
ExtractCatch(error, env) ==
    Return([success |-> FALSE,
            message |-> IF ErrorResponseStatus(error) = 404
                        THEN "Media not found" ELSE "Failed to process media",
            error |-> IF env = "development" THEN Str(error.message) ELSE Undefined])

\* settled is how the fetch of this call settles, time what new Date() reads
\* when the result is built, env is process.env.NODE_ENV.
extractMediaData(mediaId, mediaType, settled, time, env) ==
    LET tried == ExtractTry(mediaId, mediaType, settled, time)
    IN  IF tried.completion = "throw" THEN ExtractCatch(tried.error, env)
        ELSE tried

(***************************************************************************)
(* Bounds and the inputs the model draws from                              *)
(***************************************************************************)
\* Concurrent /download requests.
NumReqs == 2
\* Calls of extractMediaData compared with each other.
NumCalls == 2
\* The clock new Date() reads advances up to this value.
MaxClock == 2

Reqs == 1..NumReqs
Calls == 1..NumCalls

\* The texts of the 400 responses of /download.
MissingParameterExample == "/download?url=https://www.facebook.com/username/videos/123456789"
SupportedFormats ==
    << "Video ID: 123456789",
       "Video URL: https://www.facebook.com/watch/?v=123456789",
       "Shared Video: https://www.facebook.com/username/videos/123456789/",
       "Reel URL: https://www.facebook.com/reel/123456789",
       "Shared Reel: https://www.facebook.com/username/posts/123456789",
       "Mobile Share: https://m.facebook.com/story.php?story_fbid=123456789",
       "FB Watch: https://fb.watch/abcde12345/" >>

\* Inputs of extractMediaId: bare ids, text that is no URL, and URLs put
\* together from a scheme, a host, a path and a query.
BareInputs ==
    {"", "0", "123456789", " 123456789", "123456789 ", "123456789\n", "12 34", "12a",
     "not a url at all", "abcde12345"}
UrlSchemes == {"", "https://", "HTTP://"}
UrlHosts ==
    {"www.facebook.com", "m.facebook.com", "Facebook.com", "fb.watch", "fb.com",
     "example.com"}
UrlPaths ==
    {"", "/", "/reel/123456789", "/reels/42", "/REEL/7x", "/videos/reel/77",
     "/watch/", "/watch", "/video.php", "/story.php", "/abcde12345/",
     "/username/videos/123456789/", "/username/videos/123456789",
     "/username/posts/123456789", "/page/videos/100/200"}
UrlQueries == {"", "?v=123456789", "?story_fbid=123456789", "?x=1&v=55", "?v="}
UrlInputs ==
    {sc \o h \o pa \o q : sc \in UrlSchemes, h \in UrlHosts, pa \in UrlPaths, q \in UrlQueries}
\* The example input an advertised line carries: the text after its marker.
ExampleOf(line, marker) ==
    SubSeq(line, IndexOf(line, marker) + Len(marker), Len(line))
AdvertisedExamples ==
    {ExampleOf(SupportedFormats[k], ": ") : k \in 1..Len(SupportedFormats)}
        \cup {ExampleOf(MissingParameterExample, "url=")}
ResolverInputs == BareInputs \cup UrlInputs \cup AdvertisedExamples

\* Texts an upstream page may hold.
Pages ==
    { "",
      "hd_src:\"http://x/hd.mp4\"",
      "video_src='http://x/v.mp4'",
      "hd_src_src:\"http://x/f.mp4\"",
      "sd_src:\"\" HD_SRC = \"http://x/HD.mp4",
      "<html><head><title>Log in | Facebook</title></head><body>nothing here</body></html>",
      "<html><head><title>Clip | Facebook</title><meta name=\"description\" content=\" A clip \"><meta property=\"og:image\" content=\"http://x/t.jpg\"></head><body>high_quality_src:\"http://x/hd.mp4\",sd_src : 'http://x/sd.mp4'</body></html>" }
FetchFailures ==
    {FetchHttpError(404), FetchHttpError(403), FetchHttpError(500), FetchTimeout,
     FetchDnsFailure}
FetchOutcomes == {FetchOk(p) : p \in Pages} \cup FetchFailures
NodeEnvs == {"production", "development"}
MediaTypes == {"video", "reel", "shared_video", "shared_reel"}

(***************************************************************************)
(* State                                                                   *)
(***************************************************************************)
VARIABLES
    nodeEnv,    \* process.env.NODE_ENV
    now,        \* the time new Date() reads
    input,      \* resolver: the argument of extractMediaId
    ref,        \* resolver: what extractMediaId returned, Pending before the call
    exMedia,    \* extractor: the (mediaId, mediaType) every call is given
    exOutcome,  \* extractor: how the fetch of every call settles
    exResult,   \* extractor: call -> what the call returned, Pending before it
    query,      \* request -> req.query of the request
    pc,         \* request -> where its handler stands
    media,      \* request -> the {id, type} the handler resolved
    fetches,    \* request -> the URLs requested with axios.get, in order
    outcome,    \* request -> how its fetch settled
    mediaData,  \* request -> what the awaited extractor call gave the handler
    responses   \* request -> the responses sent, in order

vars == <<nodeEnv, now, input, ref, exMedia, exOutcome, exResult,
          query, pc, media, fetches, outcome, mediaData, responses>>
resolverVars == <<input, ref>>
extractorVars == <<exMedia, exOutcome, exResult>>
handlerVars == <<query, pc, media, fetches, outcome, mediaData, responses>>

Pending == [pending |-> TRUE]

\* The clock advances.
Tick ==
    /\ now < MaxClock
    /\ now' = now + 1
    /\ UNCHANGED <<nodeEnv, resolverVars, extractorVars, handlerVars>>

(***************************************************************************)
(* The resolver on its own: extractMediaId applied to an input.            *)
(***************************************************************************)
ResolverIdle == input = Undefined /\ ref = Pending
ExtractorIdle ==
    /\ exMedia = Pending /\ exOutcome = Pending
    /\ exResult = [c \in Calls |-> Pending]
HandlersIdle ==
    /\ query = [r \in Reqs |-> Pending]
    /\ pc = [r \in Reqs |-> "idle"]
    /\ media = [r \in Reqs |-> Pending]
    /\ fetches = [r \in Reqs |-> <<>>]
    /\ outcome = [r \in Reqs |-> Pending]
    /\ mediaData = [r \in Reqs |-> Pending]
    /\ responses = [r \in Reqs |-> <<>>]

InitResolve ==
    /\ nodeEnv = "production" /\ now = 0
    /\ input \in {Undefined} \cup {Str(i) : i \in ResolverInputs}
    /\ ref = Pending
    /\ ExtractorIdle /\ HandlersIdle

Resolve ==
    /\ ref = Pending
    /\ ref' = extractMediaId(input)
    /\ UNCHANGED <<nodeEnv, now, input, extractorVars, handlerVars>>

NextResolve == Resolve
SpecResolve == InitResolve /\ [][NextResolve]_vars

(***************************************************************************)
(* The extractor on its own: calls of extractMediaData with the same       *)
(* arguments against the same upstream answer, made as time passes.        *)
(***************************************************************************)
InitExtract ==
    /\ nodeEnv \in NodeEnvs /\ now = 0
    /\ ResolverIdle /\ HandlersIdle
    /\ exMedia \in {MediaRef(Str(i), Str(t)) : i \in {"123456789", "abcde12345"}, t \in MediaTypes}
    /\ exOutcome \in FetchOutcomes
    /\ exResult = [c \in Calls |-> Pending]

ExtractCall(c) ==
    /\ exResult[c] = Pending
    /\ exResult' = [exResult EXCEPT
           ![c] = extractMediaData(exMedia.id.str, exMedia.type.str, exOutcome, now, nodeEnv)]
    /\ UNCHANGED <<nodeEnv, now, resolverVars, exMedia, exOutcome, handlerVars>>

NextExtract == Tick \/ \E c \in Calls : ExtractCall(c)
SpecExtract == InitExtract /\ [][NextExtract]_vars

(***************************************************************************)
(* GET /download                                                           *)
(***************************************************************************)
\* req.query: each parameter is a string, or Undefined when it is not given.
Query(videoId, reelId, url) == [videoId |-> videoId, reelId |-> reelId, url |-> url]
Queries ==
    {Query(v, re, u) :
        v \in {Undefined, Str(""), Str("123456789")},
        re \in {Undefined, Str("987654321")},
        u \in {Undefined, Str(""), Str("https://www.facebook.com/reel/55"),
               Str("https://www.facebook.com/username/posts/123456789"),
               Str("fb.watch")}}
\* How the fetch of a request may settle.
HandlerOutcomes ==
    {FetchOk("hd_src:\"http://x/hd.mp4\""),
     FetchOk("<html><head><title>Log in | Facebook</title></head><body>nothing here</body></html>"),
     FetchOk("video_src='http://x/v.mp4'"),
     FetchHttpError(404), FetchHttpError(500), FetchTimeout}

\* The queries of concurrent requests, and how their fetches may settle.
ConcurrentQueries ==
    {Query(Undefined, Undefined, Undefined),
     Query(Str("123456789"), Undefined, Undefined),
     Query(Undefined, Undefined, Str("https://www.facebook.com/reel/55")),
     Query(Undefined, Undefined, Str("fb.watch"))}
ConcurrentOutcomes ==
    {FetchOk("hd_src:\"http://x/hd.mp4\""), FetchHttpError(404), FetchTimeout}

\* a || b
Or(a, b) == IF Truthy(a) THEN a ELSE b
\* A faulty variant of InputOf that reads url first: C1 must tell it apart.
InputOfUrlFirst(q) == Or(Or(q.url, q.videoId), q.reelId)
\* const input = videoId || reelId || url
InputOf(q) == Or(Or(q.videoId, q.reelId), q.url)

\* res.json(value): a property whose value is undefined is left out.
Json(value, optional) ==
    [f \in {g \in DOMAIN value : ~(g \in optional /\ value[g] = Undefined)} |-> value[f]]
Response(status, body) == [status |-> status, body |-> body]

MissingParameterResponse ==
    Response(400, [success |-> FALSE,
                   message |-> "Either videoId, reelId, or url parameter is required",
                   example |-> MissingParameterExample])
InvalidFormatResponse ==
    Response(400, [success |-> FALSE,
                   message |-> "Invalid Facebook video/reel URL format",
                   supportedFormats |-> SupportedFormats])
InternalErrorResponse ==
    Response(500, [success |-> FALSE, message |-> "Internal server error"])

\* Is the request answered before any fetch, and with what?  Otherwise the
\* reference the fetch is made for.
\* extractMediaId(input) for every query of the model, worked out once.
ResolvedOf ==
    [q \in Queries \cup ConcurrentQueries |-> extractMediaId(InputOf(q))]
Resolved(q) == ResolvedOf[q]
\* await extractMediaData(mediaId, mediaType) for every reference the queries
\* resolve to, every way the fetch may settle, every time and environment,
\* worked out once.
ExtractedOf ==
    [m \in {ResolvedOf[q] : q \in DOMAIN ResolvedOf},
     o \in HandlerOutcomes \cup ConcurrentOutcomes, t \in 0..MaxClock, e \in NodeEnvs |->
        IF Truthy(m.id) /\ Truthy(m.type)
        THEN extractMediaData(m.id.str, m.type.str, o, t, e)
        ELSE Null]
Extracted(m, o, t, e) == ExtractedOf[m, o, t, e]
EarlyResponse(q) ==
    IF ~Truthy(InputOf(q)) THEN MissingParameterResponse
    ELSE IF ~Truthy(Resolved(q).id) \/ ~Truthy(Resolved(q).type) THEN InvalidFormatResponse
    ELSE Null

\* The handler up to its await: the parameters are read, the input is
\* resolved and extractMediaData requests the page.
Download(r) ==
    /\ pc[r] = "start"
    /\ IF EarlyResponse(query[r]) # Null
       THEN /\ responses' = [responses EXCEPT ![r] = Append(@, EarlyResponse(query[r]))]
            /\ pc' = [pc EXCEPT ![r] = "responded"]
            /\ UNCHANGED <<media, fetches>>
       ELSE /\ media' = [media EXCEPT ![r] = Resolved(query[r])]
            /\ fetches' = [fetches EXCEPT
                   ![r] = Append(@, SourceUrl(Resolved(query[r]).id.str,
                                              Resolved(query[r]).type.str))]
            /\ pc' = [pc EXCEPT ![r] = "fetching"]
            /\ UNCHANGED responses
    /\ UNCHANGED <<nodeEnv, now, resolverVars, extractorVars, query, outcome, mediaData>>

\* A faulty variant of FetchSettle that requests the page once more after a
\* failure: C11 must tell it apart.
FetchSettleRetrying(r, o) ==
    /\ pc[r] = "fetching"
    /\ outcome' = [outcome EXCEPT ![r] = o]
    /\ IF o.kind # "ok" /\ Len(fetches[r]) < 2
       THEN /\ fetches' = [fetches EXCEPT ![r] = Append(@, @[1])]
            /\ UNCHANGED <<mediaData, pc>>
       ELSE /\ mediaData' = [mediaData EXCEPT ![r] = Extracted(media[r], o, now, nodeEnv)]
            /\ pc' = [pc EXCEPT ![r] = "extracted"]
            /\ UNCHANGED fetches
    /\ UNCHANGED <<nodeEnv, now, resolverVars, extractorVars, query, media, responses>>
\* The fetch settles and extractMediaData runs to its end.
FetchSettle(r, o) ==
    /\ pc[r] = "fetching"
    /\ outcome' = [outcome EXCEPT ![r] = o]
    /\ mediaData' = [mediaData EXCEPT
           ![r] = Extracted(media[r], o, now, nodeEnv)]
    /\ pc' = [pc EXCEPT ![r] = "extracted"]
    /\ UNCHANGED <<nodeEnv, now, resolverVars, extractorVars, query, media, fetches, responses>>

\* The handler after its await.
ResponseFor(data) ==
    IF data.completion = "throw" THEN InternalErrorResponse
    ELSE IF ~data.value.success THEN Response(404, Json(data.value, {"error"}))
    ELSE Response(200, data.value)

Respond(r) ==
    /\ pc[r] = "extracted"
    /\ responses' = [responses EXCEPT ![r] = Append(@, ResponseFor(mediaData[r]))]
    /\ pc' = [pc EXCEPT ![r] = "responded"]
    /\ UNCHANGED <<nodeEnv, now, resolverVars, extractorVars, query, media, fetches,
                   outcome, mediaData>>

\* One request has arrived, with any of the queries; the other request slots
\* stay idle.
FirstReq == Min(Reqs)
Init ==
    /\ nodeEnv \in NodeEnvs /\ now = 0
    /\ ResolverIdle /\ ExtractorIdle
    /\ \E q \in Queries : query = [r \in Reqs |-> IF r = FirstReq THEN q ELSE Pending]
    /\ pc = [r \in Reqs |-> IF r = FirstReq THEN "start" ELSE "idle"]
    /\ media = [r \in Reqs |-> Pending]
    /\ fetches = [r \in Reqs |-> <<>>]
    /\ outcome = [r \in Reqs |-> Pending]
    /\ mediaData = [r \in Reqs |-> Pending]
    /\ responses = [r \in Reqs |-> <<>>]

Next ==
    \/ Tick
    \/ \E r \in Reqs : Download(r)
    \/ \E r \in Reqs : \E o \in HandlerOutcomes : FetchSettle(r, o)
    \/ \E r \in Reqs : Respond(r)
Spec == Init /\ [][Next]_vars

(***************************************************************************)
(* Concurrent /download requests.  Express calls the handler once for      *)
(* every request that arrives; a handler runs without interruption up to   *)
(* its await and again from the moment its fetch has settled, so the       *)
(* handlers of different requests interleave at these points only.  The    *)
(* handlers share no state: every variable they write is per request.      *)
(***************************************************************************)
InitConcurrent ==
    /\ nodeEnv \in NodeEnvs /\ now = 0
    /\ ResolverIdle /\ ExtractorIdle /\ HandlersIdle

\* A request arrives and Express calls the handler with its req.query.
Arrive(r, q) ==
    /\ pc[r] = "idle"
    /\ query' = [query EXCEPT ![r] = q]
    /\ pc' = [pc EXCEPT ![r] = "start"]
    /\ UNCHANGED <<nodeEnv, now, resolverVars, extractorVars, media, fetches, outcome,
                   mediaData, responses>>

NextConcurrent ==
    \/ \E r \in Reqs : \E q \in ConcurrentQueries : Arrive(r, q)
    \/ \E r \in Reqs : Download(r)
    \/ \E r \in Reqs : \E o \in ConcurrentOutcomes : FetchSettle(r, o)
    \/ \E r \in Reqs : Respond(r)
\* The event loop runs every handler that is ready to run, and every fetch
\* settles: it returns, fails or is ended by its timeout.
FairConcurrent ==
    \A r \in Reqs :
        /\ WF_vars(Download(r))
        /\ WF_vars(\E o \in ConcurrentOutcomes : FetchSettle(r, o))
        /\ WF_vars(Respond(r))
SpecConcurrent == InitConcurrent /\ [][NextConcurrent]_vars /\ FairConcurrent

(***************************************************************************)
(* src/index.js: GET /download of the first version of the service, which  *)
(* takes a numeric videoId only.                                           *)
(***************************************************************************)
\* /<name>_src:"([^"]+)"/
IndexSrcPattern(s, name) ==
    LET lit == name \o "_src:\""
        Close(i) == FirstOf(s, i + Len(lit), {"\""})
        Hit(i) == /\ LitAt(s, i, lit)
                  /\ Close(i) <= Len(s)
                  /\ Close(i) > i + Len(lit)
        hits == {i \in 1..Len(s) : Hit(i)}
    IN  IF hits = {} THEN Undefined
        ELSE Str(SubSeq(s, Min(hits) + Len(lit), Close(Min(hits)) - 1))

\* getFacebookVideoUrls(videoId), once its fetch has settled
getFacebookVideoUrls(videoId, o) ==
    IF o.kind = "ok"
    THEN LET html == CheerioHtml(o.data)
         IN  Return([hd |-> IndexSrcPattern(html, "hd"),
                     sd |-> IndexSrcPattern(html, "sd"),
                     success |-> TRUE])
    ELSE Return([success |-> FALSE,
                 message |-> IF ErrorResponseStatus(o) = 404
                             THEN "Video not found" ELSE "Failed to fetch video"])

IndexInvalidIdResponse ==
    Response(400, [success |-> FALSE, message |-> "Valid numeric video ID is required"])

IndexDownload(r) ==
    /\ pc[r] = "start"
    /\ IF ~Truthy(query[r].videoId) \/ ~IsNumericId(query[r].videoId.str)
       THEN /\ responses' = [responses EXCEPT ![r] = Append(@, IndexInvalidIdResponse)]
            /\ pc' = [pc EXCEPT ![r] = "responded"]
            /\ UNCHANGED <<media, fetches>>
       ELSE /\ media' = [media EXCEPT ![r] = MediaRef(query[r].videoId, Str("video"))]
            /\ fetches' = [fetches EXCEPT
                   ![r] = Append(@, "https://www.facebook.com/watch/?v=" \o query[r].videoId.str)]
            /\ pc' = [pc EXCEPT ![r] = "fetching"]
            /\ UNCHANGED responses
    /\ UNCHANGED <<nodeEnv, now, resolverVars, extractorVars, query, outcome, mediaData>>

IndexFetchSettle(r, o) ==
    /\ pc[r] = "fetching"
    /\ outcome' = [outcome EXCEPT ![r] = o]
    /\ mediaData' = [mediaData EXCEPT ![r] = getFacebookVideoUrls(media[r].id.str, o)]
    /\ pc' = [pc EXCEPT ![r] = "extracted"]
    /\ UNCHANGED <<nodeEnv, now, resolverVars, extractorVars, query, media, fetches, responses>>

IndexResponseFor(videoId, data) ==
    IF data.completion = "throw" THEN InternalErrorResponse
    ELSE IF ~data.value.success
         THEN Response(404, data.value)
    ELSE IF ~Truthy(data.value.hd) /\ ~Truthy(data.value.sd)
         THEN Response(404, Json(data.value, {"hd", "sd"}))
    ELSE Response(200, [success |-> TRUE,
                        videoId |-> videoId,
                        downloadLinks |-> Json(data.value, {"hd", "sd"})])

IndexRespond(r) ==
    /\ pc[r] = "extracted"
    /\ responses' = [responses EXCEPT
           ![r] = Append(@, IndexResponseFor(query[r].videoId, mediaData[r]))]
    /\ pc' = [pc EXCEPT ![r] = "responded"]
    /\ UNCHANGED <<nodeEnv, now, resolverVars, extractorVars, query, media, fetches,
                   outcome, mediaData>>

NextIndex ==
    \/ \E r \in Reqs : IndexDownload(r)
    \/ \E r \in Reqs : \E o \in HandlerOutcomes : IndexFetchSettle(r, o)
    \/ \E r \in Reqs : IndexRespond(r)
SpecIndex == Init /\ [][NextIndex]_vars

(***************************************************************************)
(* Properties                                                              *)
(***************************************************************************)
Responded(r) == pc[r] = "responded"
TheResponse(r) == responses[r][1]
NonEmpty(v) == IsStr(v) /\ Len(v.str) > 0
AllDigits(text) == Len(text) > 0 /\ \A i \in 1..Len(text) : Char(text, i) \in Digits
KnownUrlHosts == UrlHosts \ {"example.com"}
UrlsOnKnownHosts(path, q) ==
    {Str(sc \o h \o path \o q) : sc \in UrlSchemes, h \in KnownUrlHosts}

\* The first non-empty of videoId, reelId, url; Null when there is none.
C1_FirstNonEmpty(q) ==
    IF NonEmpty(q.videoId) THEN q.videoId
    ELSE IF NonEmpty(q.reelId) THEN q.reelId
    ELSE IF NonEmpty(q.url) THEN q.url
    ELSE Null

\* C1: a /download request is answered 400 when videoId, reelId and url are
\* all absent or empty; otherwise 400 with supportedFormats when the first
\* non-empty of them (videoId, then reelId, then url) resolves to no usable id
\* and type; otherwise 404 with the extractor's failure payload when it
\* reports success=false; otherwise 200 with success=true.  No other status.
C1_DownloadStatus ==
    \A r \in Reqs : Responded(r) =>
        LET in == C1_FirstNonEmpty(query[r])
            resolved == extractMediaId(in)
            resp == TheResponse(r)
        IN  /\ Len(responses[r]) = 1
            /\ IF in = Null
               THEN resp.status = 400 /\ "supportedFormats" \notin DOMAIN resp.body
               ELSE IF ~NonEmpty(resolved.id) \/ ~NonEmpty(resolved.type)
               THEN resp.status = 400 /\ resp.body.supportedFormats = SupportedFormats
               ELSE /\ mediaData[r] # Pending
                    /\ mediaData[r].completion = "return"
                    /\ IF ~mediaData[r].value.success
                       THEN /\ resp.status = 404
                            /\ resp.body.success = FALSE
                            /\ resp.body.message = mediaData[r].value.message
                       ELSE resp.status = 200 /\ resp.body.success = TRUE
C1_Witness ==
    \E r \in Reqs :
        /\ Responded(r)
        /\ query[r].videoId = Str("") /\ NonEmpty(query[r].reelId) /\ NonEmpty(query[r].url)
        /\ TheResponse(r).status = 404

\* C2 as claimed: every input whose trimmed form consists only of decimal
\* digits resolves to type video with the input as id.
C2_TrimmedDigitsAreVideo ==
    (ref # Pending /\ IsStr(input) /\ AllDigits(Trim(input.str)))
        => ref = MediaRef(input, Str("video"))
\* C2 as amended: an input that consists only of decimal digits resolves to
\* type video with the input as id; the input is not trimmed, and digits with
\* leading or trailing whitespace are not recognized.
C2_DigitsAreVideo ==
    (ref # Pending /\ IsStr(input) /\ AllDigits(Trim(input.str)))
        => IF AllDigits(input.str) THEN ref = MediaRef(input, Str("video"))
           ELSE ref = NotRecognized
C2_Witness ==
    ref # Pending /\ input = Str("123456789") /\ ref.type = Str("video")

\* C3: a URL on a known domain with the path /videos/reel/<digits> resolves to
\* type shared_reel (not reel) with id <digits>.
C3_SharedReelPath ==
    \A q \in UrlQueries :
        (ref # Pending /\ input \in UrlsOnKnownHosts("/videos/reel/77", q))
            => ref = MediaRef(Str("77"), Str("shared_reel"))

\* C4: a URL on a known domain of the form /video.php?...v=<digits> resolves
\* to {id: <digits>, type: shared_video}.
C4_VideoPhpQuery ==
    (ref # Pending /\ input \in UrlsOnKnownHosts("/video.php", "?v=123456789"))
        => ref = MediaRef(Str("123456789"), Str("shared_video"))

\* C5: when the fetch fails the extractor returns (it does not throw) a result
\* with success=false, the message 'Media not found' for HTTP status 404 and
\* 'Failed to process media' for every other failure, and neither
\* downloadLinks nor metadata.
C5_FetchFailureResult ==
    \A c \in Calls :
        (exResult[c] # Pending /\ exOutcome.kind # "ok") =>
            /\ exResult[c].completion = "return"
            /\ exResult[c].value.success = FALSE
            /\ exResult[c].value.message =
                   IF exOutcome = FetchHttpError(404) THEN "Media not found"
                   ELSE "Failed to process media"
            /\ "downloadLinks" \notin DOMAIN exResult[c].value
            /\ "metadata" \notin DOMAIN exResult[c].value
C5_Witness ==
    \E c \in Calls :
        /\ exResult[c] # Pending
        /\ exOutcome = FetchHttpError(500)
        /\ exResult[c].value.message = "Failed to process media"

\* C6: whenever the fetch succeeds, /download answers 200 with success=true,
\* and downloadLinks holds a quality key of hd, sd, fallback exactly when that
\* quality's pattern matched the page; with no match downloadLinks is empty
\* and the answer is still 200, not 404.
C6_SuccessfulFetchIs200 ==
    \A r \in Reqs :
        (Responded(r) /\ outcome[r] # Pending /\ outcome[r].kind = "ok") =>
            /\ TheResponse(r).status = 200
            /\ TheResponse(r).body.success = TRUE
            /\ \A k \in 1..Len(Qualities) :
                   Qualities[k] \in DOMAIN TheResponse(r).body.downloadLinks
                       <=> Truthy(UrlPattern(Qualities[k], CheerioHtml(outcome[r].data)))

\* C7: extractMediaId returns either the not-recognized value or a reference
\* with a type of video, reel, shared_video, shared_reel and a non-empty
\* string as id; never a partially filled reference.
C7_NoPartialReference ==
    ref # Pending =>
        \/ ref = NotRecognized
        \/ /\ NonEmpty(ref.id)
           /\ ref.type \in {Str(t) : t \in MediaTypes}

\* C8: every example input the 400 responses of /download advertise is
\* resolved by extractMediaId to a non-null id and type.
C8_AdvertisedExamplesResolve ==
    (ref # Pending /\ input \in {Str(a) : a \in AdvertisedExamples})
        => ref.id # Null /\ ref.type # Null

\* C9: a /download request whose only parameter is reelId=<digits> is handled
\* as a reel: the resolved type is reel or shared_reel and the page fetched is
\* https://www.facebook.com/reel/<digits>.
C9_ReelIdIsReel ==
    \A r \in Reqs :
        (/\ pc[r] \in {"fetching", "extracted", "responded"}
         /\ query[r].videoId = Undefined /\ query[r].url = Undefined
         /\ IsStr(query[r].reelId) /\ AllDigits(query[r].reelId.str))
            => /\ media[r] # Pending
               /\ media[r].type \in {Str("reel"), Str("shared_reel")}
               /\ fetches[r] = <<"https://www.facebook.com/reel/" \o query[r].reelId.str>>

\* A result without its timestamp field.
C10_WithoutTimestamp(v) == [f \in DOMAIN v \ {"timestamp"} |-> v[f]]

\* C10 as claimed: two calls of extractMediaData with the same mediaId and
\* mediaType against the same upstream answer, made at any two times, return
\* results identical in every field.
C10_CallsIdentical ==
    \A c, d \in Calls :
        (exResult[c] # Pending /\ exResult[d] # Pending) => exResult[c] = exResult[d]
\* C10 as amended: the two results are identical in every field other than
\* timestamp, which is the time of the call.
C10_CallsIdenticalButTimestamp ==
    \A c, d \in Calls :
        (exResult[c] # Pending /\ exResult[d] # Pending) =>
            /\ exResult[c].completion = exResult[d].completion
            /\ C10_WithoutTimestamp(exResult[c].value)
                   = C10_WithoutTimestamp(exResult[d].value)
C10_Witness ==
    \E c, d \in Calls :
        /\ exResult[c] # Pending /\ exResult[d] # Pending
        /\ exResult[c].value.success /\ exResult[d].value.success
        /\ exResult[c].value.downloadLinks # <<>>
        /\ exResult[c].value.timestamp # exResult[d].value.timestamp

\* What holds of one request in every state: at most one fetch; a fetch is
\* made for the reference resolved from the request's input; a response comes
\* after the fetch has settled; a 400 response comes with no fetch.
C11_State(r) ==
    /\ Len(fetches[r]) <= 1
    /\ fetches[r] # <<>> =>
           /\ media[r] = extractMediaId(InputOf(query[r]))
           /\ Truthy(media[r].id) /\ Truthy(media[r].type)
           /\ fetches[r] = <<SourceUrl(media[r].id.str, media[r].type.str)>>
    /\ outcome[r] # Pending => Len(fetches[r]) = 1
    /\ (responses[r] # <<>> /\ fetches[r] # <<>>) =>
           outcome[r] # Pending /\ mediaData[r] # Pending
    /\ (responses[r] # <<>> /\ responses[r][1].status = 400) =>
           fetches[r] = <<>> /\ outcome[r] = Pending
\* What holds of every step of one request: a fetch is issued only while none
\* has been issued and nothing has been answered, in the step that resolves the
\* input; once a fetch has settled or a response is sent, none is issued.
C11_Step(r) ==
    /\ fetches'[r] # fetches[r] =>
           /\ fetches[r] = <<>> /\ responses[r] = <<>> /\ media[r] = Pending
           /\ media'[r] # Pending
           /\ responses'[r] = <<>>
    /\ (outcome[r] # Pending \/ responses[r] # <<>>) => fetches'[r] = fetches[r]

\* C11: for every /download request the input is resolved before any fetch,
\* at most one fetch is issued, the fetch (if any) settles before the response
\* is sent, a request answered 400 issues no fetch, and a failed fetch is
\* never issued a second time.
C11_ResolveFetchRespond ==
    /\ [](\A r \in Reqs : C11_State(r))
    /\ [][\A r \in Reqs : C11_Step(r)]_vars
C11_Witness ==
    \E r, s \in Reqs :
        /\ Responded(r) /\ outcome[r] = FetchTimeout
        /\ Len(fetches[r]) = 1 /\ TheResponse(r).status = 404
        /\ Responded(s) /\ TheResponse(s).status = 400 /\ fetches[s] = <<>>

\* What holds of one request in every state: never two responses; a fetch that
\* failed has become the returned failure result, and the response to it is
\* 404 with that result, not 500.
C12_State(r) ==
    /\ Len(responses[r]) <= 1
    /\ Responded(r) => Len(responses[r]) = 1
    /\ (outcome[r] # Pending /\ outcome[r].kind # "ok") =>
           /\ mediaData[r] # Pending
           /\ mediaData[r].completion = "return"
           /\ mediaData[r].value.success = FALSE
           /\ responses[r] # <<>> =>
                  /\ responses[r][1].status = 404
                  /\ responses[r][1].body.success = FALSE
                  /\ responses[r][1].body.message = mediaData[r].value.message

\* C12: under any interleaving of concurrent /download requests, with every
\* fetch settling in the end, every request that arrived is answered, with
\* one response and never a second one, and a failed fetch is never a raised
\* exception or a 500: it is the structured failure result, answered 404.
C12_EveryRequestAnsweredOnce ==
    /\ [](\A r \in Reqs : C12_State(r))
    /\ [][\A r \in Reqs : responses[r] # <<>> => responses'[r] = responses[r]]_vars
    /\ \A r \in Reqs : (pc[r] = "start") ~> (Len(responses[r]) = 1)
C12_Witness ==
    \E r, s \in Reqs :
        /\ r # s
        /\ Responded(r) /\ outcome[r] = FetchHttpError(404)
        /\ TheResponse(r).status = 404
        /\ Responded(s) /\ outcome[s] # Pending /\ outcome[s].kind = "ok"
        /\ TheResponse(s).status = 200
====
